---- MODULE Spec2Model ----
(***************************************************************************)
(* State-machine model of the Pi Central telemetry pipeline                *)
(* (raspberrypi/pi_central.py, mongo_upload.py, ble_receiver.py).          *)
(*                                                                         *)
(* Time is the integer part of time.time() (seconds).  Numeric summary     *)
(* values are kept in hundredths (0.15 is 15).                             *)
(***************************************************************************)
EXTENDS Integers, Sequences, FiniteSets, TLC

\* ------------------------------------------------------------------ bounds
MaxTime == 3        \* the clock stops advancing here
MaxDocs == 3        \* documents created in one run
MaxQ    == 1        \* packets waiting in the queue

\* ---------------------------------------------------------- configuration
StartTime            == 1    \* time.time() at start-up, later than the 0.0 stamps
WINDOW_SECONDS       == 10   \* in tenths of a second
BATCH_UPLOAD_SECONDS == 1

Nodes == {"wrist", "ankle"}

Max2(a, b) == IF a >= b THEN a ELSE b

SENSOR_COLLECTION == "SensorData"
PRED_COLLECTION   == "Predictions"
Collections == {SENSOR_COLLECTION, PRED_COLLECTION}

\* MongoSink.__init__: both sinks are built without a backlog_dir argument,
\* so each gets the default.
BacklogDir(coll) == "data/backlog"

VARIABLES
    MONGO_URI,          \* TRUE when a connection string is configured
    PRED_UPLOAD_EAGER,  \* TRUE when the env toggle is "1"
    SAVE_RAW,           \* 0 or 1
    FS_HZ,              \* samples per second, from the environment
    now,                \* int(time.time())
    q,                  \* asyncio.Queue of <<node, stream, payload>>
    buffer,             \* node -> sequence of normalised samples
    sensor_batch,
    pred_batch,
    last_upload,
    last_stats,         \* the "t" stamps are written and never read: left out
    last_raw_ts,
    nextId,             \* identity of the next document created
    remote,             \* collection -> set of documents written
    backlog,            \* <<dir, t>> -> sequence of lines of an existing file
    tick,               \* what the last consumer tick did (history)
    enable_raw,         \* BLEReceiver.enable_raw
    pc,                 \* node -> position of its _connect_node coroutine
    attempt,            \* node -> connect attempts made
    clients,            \* BLEReceiver.clients, in registration order
    linkOpen,           \* node -> the wireless link is open
    notif,              \* node -> channels with a live notification callback
    devlog,             \* node -> set-up operations performed, with outcome
    dlog,               \* node -> disconnect operations attempted
    dfail,              \* node -> first disconnect operation that failed, 0 if none
    prod,               \* producer task
    cons,               \* consumer task
    main,               \* main()
    stopper,            \* position of main's rx.stop() / disconnect_all
    call,               \* arguments handed to the function under study (history)
    ret                 \* what that function returned

pipeVars == <<MONGO_URI, PRED_UPLOAD_EAGER, SAVE_RAW, FS_HZ, now, q, buffer, sensor_batch,
              pred_batch, last_upload, last_stats, last_raw_ts, nextId, remote,
              backlog, tick, call, ret>>
linkVars == <<enable_raw, pc, attempt, clients, linkOpen, notif, devlog, dlog, dfail,
              prod, cons, main, stopper>>
vars == <<pipeVars, linkVars>>

\* max(1, round(seconds * fs)), halves to the even integer as round() does
WindowSize_Round(fs, tenths) ==
    LET whole == (fs * tenths) \div 10
        rest  == (fs * tenths) % 10
    IN  Max2(1, IF rest > 5 \/ (rest = 5 /\ whole % 2 = 1) THEN whole + 1 ELSE whole)

\* max(1, int(seconds * fs)) for a duration of `tenths` tenths of a second:
\* int() drops the fraction of the product
WindowSize(fs, tenths) == Max2(1, (fs * tenths) \div 10)

window_size == WindowSize(FS_HZ, WINDOW_SECONDS)

Range(s) == {s[i] : i \in 1..Len(s)}

\* --------------------------------------------------------------- documents
\* json.dumps(d, default=str) + "\n" and json.loads(line)
Dumps(d)  == [json |-> d]
Loads(ln) == ln.json

Lines(docs) == [i \in 1..Len(docs) |-> Dumps(docs[i])]
FileDocs(lns) == {Loads(lns[i]) : i \in 1..Len(lns)}

\* The documents a world (remote store and backlog directory) holds
NoFile == <<>>
FileOf(w, f) == IF f \in DOMAIN w.backlog THEN w.backlog[f] ELSE NoFile

\* ------------------------------------------------------------- MongoSink
\* insert_batch(docs) at time t: the set of possible results.  insert_many
\* either succeeds as a whole or raises; on a raise the batch is appended to
\* backlog_<t>.ndjson in the sink's directory, and a failure to open that
\* file propagates to the caller.
insert_batch(coll, docs, w, t) ==
    IF docs = <<>>
    THEN {[w |-> w, raised |-> FALSE, out |-> "none"]}
    ELSE LET fname == <<BacklogDir(coll), t>>
             okW   == [w EXCEPT !.remote[coll] = @ \cup Range(docs)]
             blW   == [w EXCEPT !.backlog =
                          [f \in DOMAIN w.backlog \cup {fname} |->
                              IF f = fname THEN FileOf(w, fname) \o Lines(docs)
                                           ELSE w.backlog[f]]]
         IN  {[w |-> okW, raised |-> FALSE, out |-> "ok"],
              [w |-> blW, raised |-> FALSE, out |-> "backlog"],
              [w |-> w,   raised |-> TRUE,  out |-> "raise"]}

\* glob("backlog_*.ndjson") in the sink's directory
Glob(coll, w) == {f \in DOMAIN w.backlog : f[1] = BacklogDir(coll)}

\* One replayed file: insert_many of its documents, then unlink
ReplayFile(coll, w, f) ==
    [remote  |-> [w.remote EXCEPT ![coll] = @ \cup FileDocs(w.backlog[f])],
     backlog |-> [g \in DOMAIN w.backlog \ {f} |-> w.backlog[g]]]

RECURSIVE ReplayAll(_, _, _)
ReplayAll(coll, w, fs) ==
    IF fs = {} THEN w
    ELSE LET f == CHOOSE g \in fs : TRUE
         IN  ReplayAll(coll, ReplayFile(coll, w, f), fs \ {f})

\* flush_backlog with the unlink outside the try: a file is removed whether
\* or not its replay succeeded
flush_backlog_UnlinkAlways(coll, w) ==
    {LET w2 == ReplayAll(coll, w, okf)
     IN  [w2 EXCEPT !.backlog = [g \in DOMAIN w2.backlog \ Glob(coll, w) |-> w2.backlog[g]]]
       : okf \in SUBSET Glob(coll, w)}

\* flush_backlog(): the set of possible results, one for every set of files
\* whose replay succeeds; a file whose replay raises is left as it is.
flush_backlog(coll, w) ==
    {ReplayAll(coll, w, okf) : okf \in SUBSET Glob(coll, w)}

\* Both sinks built whatever the connection string
SinkOn_Always(s) == TRUE

\* sensor_sink / pred_sink exist only when MONGO_URI is set
SinkOn(s) == MONGO_URI

\* ------------------------------------------------- history of one flush
\* att: insert_batch was called; out: how it ended; cleared: the batch was
\* emptied; fresh: the backlog file named at that moment did not exist before
\* the call; exact: right after the call that file holds the batch's
\* documents and nothing else.
\* replayed / left: files the sweep deleted / left in place.
\* sound: every file the sweep deleted has all its documents in the sink's
\* collection, and every file it left has the lines it had before the sweep.
NoRec == [att |-> FALSE, out |-> "none", cleared |-> FALSE, fresh |-> FALSE,
          exact |-> FALSE, replayed |-> 0, left |-> 0, sound |-> TRUE,
          whole |-> TRUE]

Rec(coll, batch, w, t, r, w2, cleared) ==
    [att |-> TRUE, out |-> r.out, cleared |-> cleared,
     fresh |-> <<BacklogDir(coll), t>> \notin DOMAIN w.backlog,
     exact |-> FileOf(r.w, <<BacklogDir(coll), t>>) = Lines(batch),
     replayed |-> Cardinality(DOMAIN r.w.backlog \ DOMAIN w2.backlog),
     left |-> IF r.raised THEN 0 ELSE Cardinality(Glob(coll, w2)),
     sound |-> \A f \in DOMAIN r.w.backlog :
                  IF f \in DOMAIN w2.backlog
                  THEN w2.backlog[f] = r.w.backlog[f]
                  ELSE FileDocs(r.w.backlog[f]) \subseteq w2.remote[coll],
     \* whole: the call put every document of the batch where it says
     whole |-> IF r.out = "ok" THEN Range(batch) \subseteq r.w.remote[coll]
               ELSE IF r.out = "backlog"
               THEN Range(batch) \subseteq FileDocs(FileOf(r.w, <<BacklogDir(coll), t>>))
               ELSE r.w = w]

\* The guarded block with the batch emptied in a finally clause
SinkBlock_ClearAlways(coll, batch, w, t) ==
    UNION { IF r.raised
            THEN {[w |-> r.w, batch |-> <<>>, rec |-> Rec(coll, batch, w, t, r, r.w, TRUE)]}
            ELSE {[w |-> w2, batch |-> <<>>, rec |-> Rec(coll, batch, w, t, r, w2, TRUE)]
                     : w2 \in flush_backlog(coll, r.w)}
          : r \in insert_batch(coll, batch, w, t) }

\* The guarded block keeping the batch when insert_batch wrote it to a backlog
\* file
SinkBlock_KeepOnBacklog(coll, batch, w, t) ==
    UNION { IF r.raised
            THEN {[w |-> r.w, batch |-> batch, rec |-> Rec(coll, batch, w, t, r, r.w, FALSE)]}
            ELSE {[w |-> w2, batch |-> IF r.out = "backlog" THEN batch ELSE <<>>,
                   rec |-> Rec(coll, batch, w, t, r, w2, r.out # "backlog")]
                     : w2 \in flush_backlog(coll, r.w)}
          : r \in insert_batch(coll, batch, w, t) }

\* One guarded block of maybe_upload (and the eager block of maybe_predict):
\*     try: sink.insert_batch(batch); sink.flush_backlog(); batch = []
\*     except Exception: keep the batch
\* The set of possible [w, batch, rec].
SinkBlock(coll, batch, w, t) ==
    UNION { IF r.raised
            THEN {[w |-> r.w, batch |-> batch, rec |-> Rec(coll, batch, w, t, r, r.w, FALSE)]}
            ELSE {[w |-> w2, batch |-> <<>>, rec |-> Rec(coll, batch, w, t, r, w2, TRUE)]
                     : w2 \in flush_backlog(coll, r.w)}
          : r \in insert_batch(coll, batch, w, t) }

\* Seconds that may pass inside maybe_upload between the two sinks' writes
Delays(t) == IF t < MaxTime THEN {0, 1} ELSE {0}

\* The timer moved only when no sink block raised
BumpTimer_OnSuccess(s, t, b1, b2) ==
    IF b1.rec.out = "raise" \/ b2.rec.out = "raise" THEN s.last_upload ELSE t

\* last_upload = time.time(), whatever the two blocks b1 and b2 did
BumpTimer(s, t, b1, b2) == t

\* maybe_upload with one try around both sinks: a raise in the sensor block
\* ends the call
maybe_upload_OneTry(s) ==
    IF (s.now - s.last_upload) < BATCH_UPLOAD_SECONDS
    THEN {s}
    ELSE UNION { UNION {
           { [s EXCEPT !.w = b2.w,
                       !.sensor_batch = b1.batch,
                       !.pred_batch = b2.batch,
                       !.now = s.now + d,
                       !.last_upload = BumpTimer(s, s.now + d, b1, b2),
                       !.tick.gate = TRUE,
                       !.tick.had = [sensor |-> s.sensor_batch # <<>>,
                                     pred   |-> s.pred_batch # <<>>],
                       !.tick.sensor = b1.rec,
                       !.tick.pred = b2.rec]
             : b2 \in IF SinkOn(s) /\ s.pred_batch # <<>> /\ b1.rec.out # "raise"
                      THEN SinkBlock(PRED_COLLECTION, s.pred_batch, b1.w, s.now + d)
                      ELSE {[w |-> b1.w, batch |-> s.pred_batch, rec |-> NoRec]} }
           : b1 \in IF SinkOn(s) /\ s.sensor_batch # <<>>
                    THEN SinkBlock(SENSOR_COLLECTION, s.sensor_batch, s.w, s.now)
                    ELSE {[w |-> s.w, batch |-> s.sensor_batch, rec |-> NoRec]} }
           : d \in Delays(s.now) }

\* maybe_upload(): the set of possible next pipeline states
maybe_upload(s) ==
    IF (s.now - s.last_upload) < BATCH_UPLOAD_SECONDS
    THEN {s}
    ELSE UNION { UNION {
           { [s EXCEPT !.w = b2.w,
                       !.sensor_batch = b1.batch,
                       !.pred_batch = b2.batch,
                       !.now = s.now + d,
                       !.last_upload = BumpTimer(s, s.now + d, b1, b2),
                       !.tick.gate = TRUE,
                       !.tick.had = [sensor |-> s.sensor_batch # <<>>,
                                     pred   |-> s.pred_batch # <<>>],
                       !.tick.sensor = b1.rec,
                       !.tick.pred = b2.rec]
             : b2 \in IF SinkOn(s) /\ s.pred_batch # <<>>
                      THEN SinkBlock(PRED_COLLECTION, s.pred_batch, b1.w, s.now + d)
                      ELSE {[w |-> b1.w, batch |-> s.pred_batch, rec |-> NoRec]} }
           : b1 \in IF SinkOn(s) /\ s.sensor_batch # <<>>
                    THEN SinkBlock(SENSOR_COLLECTION, s.sensor_batch, s.w, s.now)
                    ELSE {[w |-> s.w, batch |-> s.sensor_batch, rec |-> NoRec]} }
           : d \in Delays(s.now) }

\* ------------------------------------------------------------ add_sample
NewDoc(s, type) == [id |-> s.nextId, type |-> type]

\* The trim keeping the oldest samples
LastN_Oldest(sq, n) == IF Len(sq) > n THEN SubSeq(sq, 1, n) ELSE sq

\* sq[-n:]
LastN(sq, n) == IF Len(sq) > n THEN SubSeq(sq, Len(sq) - n + 1, Len(sq)) ELSE sq

add_sample(s, sample) ==
    LET limb == sample.device IN
    IF limb \notin DOMAIN s.buffer THEN s
    ELSE LET norm == [accel |-> sample.accel, gyro |-> sample.gyro]
             buf  == LastN(Append(s.buffer[limb], norm), window_size * 3)
             s1   == [s EXCEPT !.buffer[limb] = buf, !.last_raw_ts[limb] = s.now]
         IN  IF SAVE_RAW # 0
             THEN [s1 EXCEPT !.sensor_batch = Append(@, NewDoc(s, "raw")),
                             !.nextId = @ + 1]
             ELSE s1

\* ---------------------------------------------------------- label texts
\* Payloads of the LABEL characteristic, by their bytes
LabelPayloads == {"\\x00", "SPD,1.02,0.15", "WALK,1.22,0.42", "WALK,1.22", "IDLE",
                  "IDLE,1.00,0.05", "RUN,1.80,0.50"}

\* _sanitize_label_bytes: control characters removed, then strip()
SanitizeLabelBytes(b) == IF b = "\\x00" THEN "" ELSE b

\* _extract_floats, in hundredths
ExtractFloats(t) ==
    IF t = "SPD,1.02,0.15" THEN <<102, 15>>
    ELSE IF t = "IDLE,1.00,0.05" THEN <<100, 5>>
    ELSE IF t = "RUN,1.80,0.50" THEN <<180, 50>>
    ELSE IF t = "WALK,1.22,0.42" THEN <<122, 42>>
    ELSE IF t = "WALK,1.22" THEN <<122>>
    ELSE <<>>

StartsWithSPD(t) == t \in {"SPD,1.02,0.15"}

None == -1000

\* The label branch of consumer(): [skip, s]; skip is the `continue`
ProcessLabel(s, node, payload) ==
    LET t == SanitizeLabelBytes(payload) IN
    IF t = "" THEN [skip |-> TRUE, s |-> s]
    ELSE IF StartsWithSPD(t)
    THEN LET nums == ExtractFloats(t) IN
         IF Len(nums) >= 2
         THEN [skip |-> FALSE,
               s |-> [s EXCEPT !.last_stats["ankle"] =
                                   [acc_mag |-> nums[1], intensity |-> nums[2]],
                               !.sensor_batch = Append(@, NewDoc(s, "speed")),
                               !.nextId = @ + 1]]
         ELSE [skip |-> FALSE, s |-> s]
    ELSE LET nums == ExtractFloats(t)
             mean == IF Len(nums) >= 1 THEN nums[1] ELSE None
             std  == IF Len(nums) >= 2 THEN nums[2] ELSE None
             s1   == IF mean # None \/ std # None
                     THEN [s EXCEPT !.last_stats["wrist"] =
                                       [mean |-> mean, std |-> std]]
                     ELSE s
         IN  [skip |-> FALSE,
              s |-> [s1 EXCEPT !.sensor_batch = Append(@, NewDoc(s, "label")),
                               !.nextId = @ + 1]]

\* The raw branch of consumer()
ProcessRaw(s, node, payload) ==
    IF payload.len # 12 THEN [skip |-> TRUE, s |-> s]
    ELSE LET sample == [device |-> node,
                        accel |-> <<payload.v, payload.v, payload.v>>,
                        gyro  |-> <<payload.v, payload.v, payload.v>>]
             s1 == add_sample(s, sample)
         IN  [skip |-> FALSE, s |-> [s1 EXCEPT !.last_raw_ts[node] = s.now]]

\* ------------------------------------------------------ feature_extractor
\* Sample values and features are kept in thousandths (0.15 is 150); square
\* roots and quotients are rounded down to that unit.
Isqrt(x) == CHOOSE r \in 0..x : r * r <= x /\ (r + 1) * (r + 1) > x

RECURSIVE SumSeq(_)
SumSeq(v) == IF v = <<>> THEN 0 ELSE Head(v) + SumSeq(Tail(v))

MinSeq(v) == CHOOSE m \in Range(v) : \A y \in Range(v) : m <= y
MaxSeq(v) == CHOOSE m \in Range(v) : \A y \in Range(v) : m >= y

Mean(v) == SumSeq(v) \div Len(v)

\* np.std(v, ddof=1)
StdDdof1(v) ==
    LET mu == Mean(v)
        sq == [i \in 1..Len(v) |-> (v[i] - mu) * (v[i] - mu)]
    IN  Isqrt(SumSeq(sq) \div (Len(v) - 1))

\* sstats with the single-sample guard dropped: ddof=1 on one value divides
\* by zero and numpy returns nan, written -1 here
sstats_NoGuard(v) ==
    IF Len(v) = 0 THEN <<0, 0, 0, 0>>
    ELSE <<Mean(v), IF Len(v) > 1 THEN StdDdof1(v) ELSE -1, MinSeq(v), MaxSeq(v)>>

\* sstats(v): mean, std, min, max
sstats(v) ==
    IF Len(v) = 0 THEN <<0, 0, 0, 0>>
    ELSE <<Mean(v), IF Len(v) > 1 THEN StdDdof1(v) ELSE 0, MinSeq(v), MaxSeq(v)>>

\* _get_vec3 for the list form the consumer produces
get_vec3(sample, key) == sample[key]

Mag(x, y, z) == Isqrt(x * x + y * y + z * z)

\* _feats(samples): ax, ay, az, amag, gmag -> 5 channels x 4 stats
feats(samples) ==
    LET n    == Len(samples)
        ax   == [i \in 1..n |-> get_vec3(samples[i], "accel")[1]]
        ay   == [i \in 1..n |-> get_vec3(samples[i], "accel")[2]]
        az   == [i \in 1..n |-> get_vec3(samples[i], "accel")[3]]
        amag == [i \in 1..n |-> Mag(ax[i], ay[i], az[i])]
        gmag == [i \in 1..n |->
                    Mag(get_vec3(samples[i], "gyro")[1], get_vec3(samples[i], "gyro")[2],
                        get_vec3(samples[i], "gyro")[3])]
    IN  sstats(ax) \o sstats(ay) \o sstats(az) \o sstats(amag) \o sstats(gmag)

Zeros20 == [i \in 1..20 |-> 0]

Slot(window, limb) ==
    IF limb \in DOMAIN window /\ Len(window[limb]) > 0
    THEN feats(window[limb]) ELSE Zeros20

\* compute_features(window): for limb in ("wrist", "ankle")
compute_features(window) == Slot(window, "wrist") \o Slot(window, "ankle")

\* ------------------------------------------------------------- inference
\* row[i] of the code (0-based)
Feature(row, i) == row[i + 1]

label_map == <<"Idle", "Walking", "Running">>

\* _FallbackModel.predict with <= in place of <
FallbackPredict_Inclusive(row) ==
    LET wrist_am_std == Feature(row, 13)
        ankle_am_std == IF Len(row) > 33 THEN Feature(row, 33) ELSE wrist_am_std
        m == Max2(wrist_am_std, ankle_am_std)
    IN  IF m <= 150 THEN 0 ELSE IF m <= 500 THEN 1 ELSE 2

\* _FallbackModel.predict for one row: 0 Idle, 1 Walking, 2 Running
FallbackPredict(row) ==
    LET wrist_am_std == Feature(row, 13)
        ankle_am_std == IF Len(row) > 33 THEN Feature(row, 33) ELSE wrist_am_std
        m == Max2(wrist_am_std, ankle_am_std)
    IN  IF m < 150 THEN 0 ELSE IF m < 500 THEN 1 ELSE 2

\* _FallbackModel.predict_proba for one row
FallbackProba(row) ==
    LET p == FallbackPredict(row)
    IN  [i \in 1..3 |-> IF i = p + 1 THEN 600 ELSE 200]

\* InferenceEngine.predict_window with the fallback model (no model file)
predict_row(X) ==
    LET y == FallbackPredict(X)
    IN  [label |-> label_map[y + 1], proba |-> FallbackProba(X)]

predict_window(window) == predict_row(compute_features(window))

\* --------------------------------------------------------- maybe_predict
\* The synthetic path taken whenever a summary is cached, stale or not
SynthDue_NoStale(raw_stale, have_wrist, have_ankle) == have_wrist \/ have_ankle

\* if raw_stale and (have_wrist or have_ankle)
SynthDue(raw_stale, have_wrist, have_ankle) == raw_stale /\ (have_wrist \/ have_ankle)

\* The heuristic on m = max(std_w, std_a), in hundredths
SynthLabel(m) == IF m < 15 THEN "Idle" ELSE IF m < 50 THEN "Walking" ELSE "Running"

\* The window with an entry for every device that holds a sample, ready or not
ReadyWindow_AnySample(s) ==
    [n \in {n \in Nodes : Len(s.buffer[n]) > 0} |-> LastN(s.buffer[n], window_size)]

\* window = {}; if enough_x: window[x] = buffer[x][-window_size:]
ReadyWindow(s) ==
    [n \in {n \in Nodes : Len(s.buffer[n]) >= window_size} |->
        LastN(s.buffer[n], window_size)]

maybe_predict(s) ==
    LET enough_wrist == Len(s.buffer["wrist"]) >= window_size
        enough_ankle == Len(s.buffer["ankle"]) >= window_size
        raw_stale  == (s.now - Max2(s.last_raw_ts["wrist"], s.last_raw_ts["ankle"])) >= 1
        have_wrist == s.last_stats["wrist"].std # None
        have_ankle == s.last_stats["ankle"].intensity # None
        path == IF enough_wrist \/ enough_ankle THEN "model"
                ELSE IF SynthDue(raw_stale, have_wrist, have_ankle) THEN "synthetic"
                ELSE "none"
        window == ReadyWindow(s)
        \* x or 0.0
        std_w == IF have_wrist THEN s.last_stats["wrist"].std ELSE 0
        std_a == IF have_ankle THEN s.last_stats["ankle"].intensity ELSE 0
        m     == Max2(std_w, std_a)
        synth == SynthLabel(m)
        doc == IF path = "model"
               THEN [id |-> s.nextId, type |-> "prediction",
                     label |-> predict_window(window).label,
                     probs |-> predict_window(window).proba]
               ELSE [id |-> s.nextId, type |-> "prediction", label |-> synth]
        s1 == [s EXCEPT !.pred_batch = Append(@, doc),
                        !.nextId = @ + 1,
                        !.tick.predicted = path]
    IN  IF path = "none" THEN {s}
        ELSE IF PRED_UPLOAD_EAGER /\ SinkOn(s)
        THEN {[s1 EXCEPT !.w = b.w, !.pred_batch = b.batch, !.tick.eager = b.rec]
                 : b \in SinkBlock(PRED_COLLECTION, s1.pred_batch, s1.w, s1.now)}
        ELSE {s1}

\* ------------------------------------------------------------- consumer
\* kind: what the iteration dequeued; down: maybe_predict and maybe_upload
\* were called in it
NoTick == [kind |-> "none", down |-> FALSE, predicted |-> "none", gate |-> FALSE,
           gaveup |-> {},
           had |-> [sensor |-> FALSE, pred |-> FALSE],
           sensor |-> NoRec, pred |-> NoRec, eager |-> NoRec]

PipeState ==
    [now |-> now, buffer |-> buffer, sensor_batch |-> sensor_batch,
     pred_batch |-> pred_batch, last_upload |-> last_upload,
     last_stats |-> last_stats, last_raw_ts |-> last_raw_ts, nextId |-> nextId,
     w |-> [remote |-> remote, backlog |-> backlog], tick |-> NoTick]

\* maybe_predict(); maybe_upload()
Downstream(s) ==
    UNION {maybe_upload(s1) : s1 \in maybe_predict([s EXCEPT !.tick.down = TRUE])}

\* A take of the newest packet instead of the oldest
Dequeue_Newest(queue) ==
    [item |-> queue[Len(queue)], rest |-> SubSeq(queue, 1, Len(queue) - 1)]

\* q.get() on a non-empty queue: the oldest packet, and the queue without it
Dequeue(queue) == [item |-> Head(queue), rest |-> Tail(queue)]

\* One iteration of consumer(): the set of possible next pipeline states
consumer(s, queue) ==
    IF queue = <<>>
    THEN Downstream([s EXCEPT !.tick.kind = "timeout"])
    ELSE LET node    == Dequeue(queue).item[1]
             stream  == Dequeue(queue).item[2]
             payload == Dequeue(queue).item[3]
             r == IF stream = "raw" THEN ProcessRaw(s, node, payload)
                  ELSE IF stream = "label" THEN ProcessLabel(s, node, payload)
                  ELSE [skip |-> FALSE, s |-> s]
         IN  IF r.skip THEN {[r.s EXCEPT !.tick.kind = "dropped"]}
             ELSE Downstream([r.s EXCEPT !.tick.kind = stream])

\* The iteration's effect on the program's state
ConsumerBody(maxDocs) ==
    /\ cons = "running"
    /\ \E s \in consumer(PipeState, q) :
          /\ s.nextId <= maxDocs + 1
          /\ now' = s.now
          /\ buffer' = s.buffer
          /\ sensor_batch' = s.sensor_batch
          /\ pred_batch' = s.pred_batch
          /\ last_upload' = s.last_upload
          /\ last_stats' = s.last_stats
          /\ last_raw_ts' = s.last_raw_ts
          /\ nextId' = s.nextId
          /\ remote' = s.w.remote
          /\ backlog' = s.w.backlog
          /\ tick' = [s.tick EXCEPT !.gaveup = {n \in Nodes : pc[n] = "gaveup"}]
    /\ q' = IF q = <<>> THEN q ELSE Dequeue(q).rest
    /\ UNCHANGED <<MONGO_URI, PRED_UPLOAD_EAGER, SAVE_RAW, FS_HZ, linkVars>>

ConsumerStep(maxDocs) == ConsumerBody(maxDocs) /\ UNCHANGED <<call, ret>>

ConsumerTick == ConsumerStep(MaxDocs)

\* Time passes between two steps
Elapse(maxTime) ==
    /\ now < maxTime
    /\ now' = now + 1
    /\ UNCHANGED <<MONGO_URI, PRED_UPLOAD_EAGER, SAVE_RAW, FS_HZ, q, buffer, sensor_batch,
                   pred_batch, last_upload, last_stats, last_raw_ts, nextId, remote,
                   backlog, tick, linkVars, call, ret>>

Tick == Elapse(MaxTime)

\* ------------------------------------------------- notification callbacks
RawLens == {0, 6, 12}
RawVals == {1}

\* _cb_raw without its length check
RawPut_NoCheck(queue, node, data) ==
    IF data.len = 0 THEN queue ELSE Append(queue, <<node, "raw", data>>)

\* The body of _cb_raw(node).inner: the queue after a notification `data`
RawPut(queue, node, data) ==
    IF data.len = 0 \/ data.len # 12 THEN queue
    ELSE Append(queue, <<node, "raw", data>>)

\* _cb_raw(node).inner: a RAW notification of `len` bytes
cb_raw(node) ==
    /\ "raw" \in notif[node]
    /\ Len(q) < MaxQ
    /\ \E len \in RawLens, v \in RawVals :
          q' = RawPut(q, node, [len |-> len, v |-> v])
    /\ UNCHANGED <<MONGO_URI, PRED_UPLOAD_EAGER, SAVE_RAW, FS_HZ, now, buffer, sensor_batch,
                   pred_batch, last_upload, last_stats, last_raw_ts, nextId, remote,
                   backlog, tick, linkVars, call, ret>>

\* _cb_label(node).inner: a LABEL notification
cb_label(node, payloads) ==
    /\ "label" \in notif[node]
    /\ Len(q) < MaxQ
    /\ \E data \in payloads \cup {""} :
          q' = IF data = "" THEN q ELSE Append(q, <<node, "label", data>>)
    /\ UNCHANGED <<MONGO_URI, PRED_UPLOAD_EAGER, SAVE_RAW, FS_HZ, now, buffer, sensor_batch,
                   pred_batch, last_upload, last_stats, last_raw_ts, nextId, remote,
                   backlog, tick, linkVars, call, ret>>

\* The same callback with the last two RAW notifications kept in `call`
NotifyRaw(node) ==
    /\ "raw" \in notif[node]
    /\ Len(q) < MaxQ
    /\ \E len \in RawLens, v \in RawVals :
          /\ q' = RawPut(q, node, [len |-> len, v |-> v])
          /\ call' = LastN(Append(call, [node |-> node, len |-> len]), 2)
    /\ UNCHANGED <<MONGO_URI, PRED_UPLOAD_EAGER, SAVE_RAW, FS_HZ, now, buffer, sensor_batch,
                   pred_batch, last_upload, last_stats, last_raw_ts, nextId, remote,
                   backlog, tick, linkVars, ret>>

CbRaw   == \E node \in Nodes : cb_raw(node)
CbRawSeen == \E node \in Nodes : NotifyRaw(node)
CbLabel    == \E node \in Nodes : cb_label(node, LabelPayloads)
CbLabelOne == \E node \in Nodes : cb_label(node, {"WALK,1.22,0.42"})

\* ------------------------------------------------------------------ Init
InitPipe ==
    /\ now = StartTime
    /\ q = <<>>
    /\ buffer = [n \in Nodes |-> <<>>]
    /\ sensor_batch = <<>>
    /\ pred_batch = <<>>
    /\ last_upload = StartTime
    /\ last_stats = [n \in Nodes |->
                        IF n = "wrist" THEN [mean |-> None, std |-> None]
                        ELSE [acc_mag |-> None, intensity |-> None]]
    /\ last_raw_ts = [n \in Nodes |-> 0]
    /\ nextId = 1
    /\ remote = [c \in Collections |-> {}]
    /\ backlog = <<>>
    /\ tick = NoTick
    /\ call = <<>>
    /\ ret = <<>>

\* The state connect_all() leaves for two nodes whose links opened and whose
\* set-up went through (LABEL-only when RAW could not be enabled), the
\* producer idling in its sleep loop.
SetupLog(raw) ==
    << <<"scan", "found">>, <<"connect", "ok">>, <<"sub_label", "ok">> >>
    \o (IF raw THEN << <<"raw_on", "ok">>, <<"sub_raw", "ok">> >>
               ELSE << <<"raw_on", "fail">> >>)
    \o << <<"START", "ok">> >>

Streaming(raw) ==
    /\ enable_raw = TRUE
    /\ pc = [n \in Nodes |-> "done"]
    /\ attempt = [n \in Nodes |-> 1]
    /\ clients = <<"wrist", "ankle">>
    /\ linkOpen = [n \in Nodes |-> TRUE]
    /\ notif = [n \in Nodes |-> IF raw THEN {"label", "raw"} ELSE {"label"}]
    /\ devlog = [n \in Nodes |-> SetupLog(raw)]
    /\ dlog = [n \in Nodes |-> <<>>]
    /\ dfail = [n \in Nodes |-> 0]
    /\ prod = "idle"
    /\ cons = "running"
    /\ main = "gather"
    /\ stopper = [list |-> <<>>, i |-> 1, step |-> 1]

\* The uploader under LABEL-only links with a store configured, fed with
\* wrist-format summaries
Init ==
    /\ MONGO_URI = TRUE
    /\ PRED_UPLOAD_EAGER \in BOOLEAN
    /\ SAVE_RAW = 0
    /\ FS_HZ = 1
    /\ InitPipe
    /\ Streaming(FALSE)

Next == ConsumerTick \/ Tick \/ CbLabelOne

Spec == Init /\ [][Next]_vars

\* ======================================================================
\* Device links: BLEReceiver._connect_node, connect_all, disconnect_all and
\* run_ble's producer and main
\* ======================================================================
MaxDocsLink == 1    \* documents created in one run of SpecLink
MaxTimeLink == 2    \* the clock of SpecLink stops here

pipeAll == <<MONGO_URI, PRED_UPLOAD_EAGER, SAVE_RAW, FS_HZ, now, q, buffer, sensor_batch,
             pred_batch, last_upload, last_stats, last_raw_ts, nextId, remote,
             backlog, tick, call, ret>>

Running == main # "exited"

\* The retry loop after a failed attempt with index idx (range(3)): give up
\* on the third, else back off and try again
RetryPc_Raise(idx) == IF idx = 2 THEN "raised" ELSE "connect"
RetryPc_Four(idx) == IF idx = 3 THEN "gaveup" ELSE "connect"
RetryPc(idx) == IF idx = 2 THEN "gaveup" ELSE "connect"

\* Where _connect_node goes when enabling or subscribing RAW raised: the
\* except clause logs and falls through to START
AfterRawFail_Return == "done"
AfterRawFail == "start"

\* _resolve_by_name: BleakScanner.discover
Resolve(n) ==
    /\ Running /\ pc[n] = "scan"
    /\ \E out \in {"found", "notfound", "raise"} :
          /\ pc' = [pc EXCEPT ![n] = IF out = "found" THEN "connect"
                                      ELSE IF out = "notfound" THEN "notfound"
                                      ELSE "raised"]
          /\ devlog' = [devlog EXCEPT ![n] = Append(@, <<"scan", out>>)]
    /\ UNCHANGED <<pipeAll, enable_raw, attempt, clients, linkOpen, notif, dlog, dfail,
                   prod, cons, main, stopper>>

\* await client.connect(); a raise is a failed attempt
ConnectCall(n) ==
    /\ Running /\ pc[n] = "connect"
    /\ attempt' = [attempt EXCEPT ![n] = @ + 1]
    /\ \E out \in {"ok", "raise"} :
          IF out = "ok"
          THEN /\ linkOpen' = [linkOpen EXCEPT ![n] = TRUE]
               /\ pc' = [pc EXCEPT ![n] = "settle"]
               /\ UNCHANGED devlog
          ELSE /\ linkOpen' = [linkOpen EXCEPT ![n] = FALSE]
               /\ pc' = [pc EXCEPT ![n] = RetryPc(attempt[n])]
               /\ devlog' = [devlog EXCEPT ![n] = Append(@, <<"connect", "fail">>)]
    /\ UNCHANGED <<pipeAll, enable_raw, clients, notif, dlog, dfail, prod, cons, main,
                   stopper>>

\* await asyncio.sleep(POST_CONNECT_GRACE_S); the is_connected check (not
\* connected is a failed attempt); on success the break and
\* self.clients[node_label] = client
Settle(n) ==
    /\ Running /\ pc[n] = "settle"
    /\ \E out \in {"connected", "dropped"} :
          IF out = "connected"
          THEN /\ clients' = Append(clients, n)
               /\ pc' = [pc EXCEPT ![n] = "label"]
               /\ devlog' = [devlog EXCEPT ![n] = Append(@, <<"connect", "ok">>)]
               /\ UNCHANGED linkOpen
          ELSE /\ linkOpen' = [linkOpen EXCEPT ![n] = FALSE]
               /\ pc' = [pc EXCEPT ![n] = RetryPc(attempt[n] - 1)]
               /\ devlog' = [devlog EXCEPT ![n] = Append(@, <<"connect", "fail">>)]
               /\ UNCHANGED clients
    /\ UNCHANGED <<pipeAll, enable_raw, attempt, notif, dlog, dfail, prod, cons, main,
                   stopper>>

\* await client.start_notify(UUID_CHAR_LABEL, ...): not guarded
SubLabel(n) ==
    /\ Running /\ pc[n] = "label"
    /\ \E out \in {"ok", "raise"} :
          /\ devlog' = [devlog EXCEPT ![n] = Append(@, <<"sub_label", out>>)]
          /\ IF out = "ok"
             THEN /\ notif' = [notif EXCEPT ![n] = @ \cup {"label"}]
                  /\ pc' = [pc EXCEPT ![n] = IF enable_raw THEN "rawon" ELSE "start"]
             ELSE /\ pc' = [pc EXCEPT ![n] = "raised"]
                  /\ UNCHANGED notif
    /\ UNCHANGED <<pipeAll, enable_raw, attempt, clients, linkOpen, dlog, dfail, prod, cons,
                   main, stopper>>

\* await client.write_gatt_char(UUID_CHAR_CTRL, b"raw:on")
RawOn(n) ==
    /\ Running /\ pc[n] = "rawon"
    /\ \E out \in {"ok", "fail"} :
          /\ devlog' = [devlog EXCEPT ![n] = Append(@, <<"raw_on", out>>)]
          /\ pc' = [pc EXCEPT ![n] = IF out = "ok" THEN "rawsub" ELSE AfterRawFail]
    /\ UNCHANGED <<pipeAll, enable_raw, attempt, clients, linkOpen, notif, dlog, dfail, prod,
                   cons, main, stopper>>

\* await client.start_notify(UUID_CHAR_RAW, ...)
SubRaw(n) ==
    /\ Running /\ pc[n] = "rawsub"
    /\ \E out \in {"ok", "fail"} :
          /\ devlog' = [devlog EXCEPT ![n] = Append(@, <<"sub_raw", out>>)]
          /\ notif' = [notif EXCEPT ![n] = IF out = "ok" THEN @ \cup {"raw"} ELSE @]
          /\ pc' = [pc EXCEPT ![n] = IF out = "ok" THEN "start" ELSE AfterRawFail]
    /\ UNCHANGED <<pipeAll, enable_raw, attempt, clients, linkOpen, dlog, dfail, prod, cons,
                   main, stopper>>

\* await client.write_gatt_char(UUID_CHAR_CTRL, struct.pack("<BH", 1, sample_hz))
Start(n) ==
    /\ Running /\ pc[n] = "start"
    /\ \E out \in {"ok", "fail"} :
          devlog' = [devlog EXCEPT ![n] = Append(@, <<"START", out>>)]
    /\ pc' = [pc EXCEPT ![n] = "done"]
    /\ UNCHANGED <<pipeAll, enable_raw, attempt, clients, linkOpen, notif, dlog, dfail, prod,
                   cons, main, stopper>>

\* connect_all: asyncio.gather over both _connect_node coroutines returns
\* once all of them returned
GatherDone ==
    /\ Running /\ prod = "connecting"
    /\ \A n \in Nodes : pc[n] \in {"notfound", "gaveup", "done"}
    /\ prod' = "idle"
    /\ UNCHANGED <<pipeAll, enable_raw, pc, attempt, clients, linkOpen, notif, devlog,
                   dlog, dfail, cons, main, stopper>>

\* ... and passes the first exception on to producer(), whose await sits
\* outside its try
GatherRaise ==
    /\ Running /\ prod = "connecting"
    /\ \E n \in Nodes : pc[n] = "raised"
    /\ prod' = "raised"
    /\ UNCHANGED <<pipeAll, enable_raw, pc, attempt, clients, linkOpen, notif, devlog,
                   dlog, dfail, cons, main, stopper>>

\* main(): gather(prod, cons) re-raises; finally: prod.cancel(), cons.cancel()
\* and rx.stop(), whose disconnect_all snapshots self.clients
MainFinally ==
    /\ main = "gather" /\ prod = "raised"
    /\ main' = "stopping"
    /\ cons' = "cancelled"
    /\ stopper' = [list |-> clients, i |-> 1, step |-> 1]
    /\ UNCHANGED <<pipeAll, enable_raw, pc, attempt, clients, linkOpen, notif, devlog,
                   dlog, dfail, prod>>

\* The four operations of disconnect_all on one client
DiscOps == <<"STOP", "unsub_raw", "unsub_label", "disconnect">>

\* Every operation has its own except clause: the next one follows whatever
\* the outcome
AfterDiscStep_Abort(step, out) == IF out = "fail" THEN 5 ELSE step + 1
AfterDiscStep(step, out) == step + 1

DisconnectStep ==
    /\ main = "stopping" /\ stopper.i <= Len(stopper.list)
    /\ LET n == stopper.list[stopper.i] IN
       \E out \in {"ok", "fail"} :
          LET k  == stopper.step
              nx == AfterDiscStep(k, out)
          IN  /\ dlog' = [dlog EXCEPT ![n] = Append(@, DiscOps[k])]
              /\ dfail' = [dfail EXCEPT ![n] = IF out = "fail" /\ @ = 0 THEN k ELSE @]
              /\ notif' = [notif EXCEPT ![n] =
                              IF out = "fail" THEN @
                              ELSE IF k = 2 THEN @ \ {"raw"}
                              ELSE IF k = 3 THEN @ \ {"label"}
                              ELSE IF k = 4 THEN {}
                              ELSE @]
              /\ linkOpen' = [linkOpen EXCEPT ![n] = IF k = 4 /\ out = "ok" THEN FALSE ELSE @]
              /\ stopper' = IF nx > 4 THEN [stopper EXCEPT !.i = @ + 1, !.step = 1]
                            ELSE [stopper EXCEPT !.step = nx]
    /\ UNCHANGED <<pipeAll, enable_raw, pc, attempt, clients, devlog, prod, cons, main>>

\* main() returns with the exception; asyncio.run cancels what is left
MainExit ==
    /\ main = "stopping" /\ stopper.i > Len(stopper.list)
    /\ main' = "exited"
    /\ pc' = [n \in Nodes |-> IF pc[n] \in {"notfound", "gaveup", "done", "raised"}
                              THEN pc[n] ELSE "cancelled"]
    /\ UNCHANGED <<pipeAll, enable_raw, attempt, clients, linkOpen, notif, devlog, dlog, dfail,
                   prod, cons, stopper>>

LinkStep(n) ==
    \/ Resolve(n) \/ ConnectCall(n) \/ Settle(n)
    \/ SubLabel(n) \/ RawOn(n) \/ SubRaw(n) \/ Start(n)

ConnectNode == \E n \in Nodes : LinkStep(n)

\* The state after construction, connect_all() just started
InitLink ==
    /\ MONGO_URI = TRUE
    /\ PRED_UPLOAD_EAGER = FALSE
    /\ SAVE_RAW = 0
    /\ FS_HZ = 1
    /\ InitPipe
    /\ enable_raw \in BOOLEAN
    /\ pc = [n \in Nodes |-> "scan"]
    /\ attempt = [n \in Nodes |-> 0]
    /\ clients = <<>>
    /\ linkOpen = [n \in Nodes |-> FALSE]
    /\ notif = [n \in Nodes |-> {}]
    /\ devlog = [n \in Nodes |-> <<>>]
    /\ dlog = [n \in Nodes |-> <<>>]
    /\ dfail = [n \in Nodes |-> 0]
    /\ prod = "connecting"
    /\ cons = "running"
    /\ main = "gather"
    /\ stopper = [list |-> <<>>, i |-> 1, step |-> 1]

NextLink ==
    \/ ConnectNode
    \/ GatherDone
    \/ GatherRaise
    \/ MainFinally
    \/ DisconnectStep
    \/ MainExit

SpecLink == InitLink /\ [][NextLink]_vars

\* One node's link still being opened while the other node streams: the
\* state connect_all() is in when the other node's set-up went through first
InitDegraded ==
    /\ MONGO_URI = TRUE
    /\ PRED_UPLOAD_EAGER = FALSE
    /\ SAVE_RAW = 0
    /\ FS_HZ = 1
    /\ InitPipe
    /\ enable_raw = TRUE
    /\ \E a \in Nodes :
          /\ pc = [n \in Nodes |-> IF n = a THEN "scan" ELSE "done"]
          /\ attempt = [n \in Nodes |-> IF n = a THEN 0 ELSE 1]
          /\ clients = SelectSeq(<<"wrist", "ankle">>, LAMBDA n : n # a)
          /\ linkOpen = [n \in Nodes |-> n # a]
          /\ notif = [n \in Nodes |-> IF n = a THEN {} ELSE {"label", "raw"}]
          /\ devlog = [n \in Nodes |-> IF n = a THEN <<>> ELSE SetupLog(TRUE)]
    /\ dlog = [n \in Nodes |-> <<>>]
    /\ dfail = [n \in Nodes |-> 0]
    /\ prod = "connecting"
    /\ cons = "running"
    /\ main = "gather"
    /\ stopper = [list |-> <<>>, i |-> 1, step |-> 1]

ConsumerTickLink == ConsumerStep(MaxDocsLink)
TickLink == Elapse(MaxTimeLink)
NextDegraded ==
    \/ ConnectNode
    \/ GatherDone
    \/ GatherRaise
    \/ MainFinally
    \/ DisconnectStep
    \/ MainExit
    \/ ConsumerTickLink
    \/ TickLink
    \/ CbRaw
    \/ CbLabelOne

SpecDegraded == InitDegraded /\ [][NextDegraded]_vars

\* ======================================================================
\* The consumer fed by both channels of both devices, no store configured
\* ======================================================================
MaxDocsFeed == 2    \* documents created in one run of SpecFeed
MaxTimeFeed == 2    \* the clock of SpecFeed stops here

InitFeed ==
    /\ MONGO_URI = FALSE
    /\ PRED_UPLOAD_EAGER = FALSE
    /\ SAVE_RAW = 0
    /\ FS_HZ = 2
    /\ InitPipe
    /\ Streaming(TRUE)

ConsumerTickFeed == ConsumerStep(MaxDocsFeed)
TickFeed == Elapse(MaxTimeFeed)

NextFeed == ConsumerTickFeed \/ TickFeed \/ CbRaw \/ CbLabel

SpecFeed == InitFeed /\ [][NextFeed]_vars

\* The consumer fed by the RAW channel alone
NextRaw == ConsumerTickFeed \/ TickFeed \/ CbRawSeen

SpecRaw == InitFeed /\ [][NextRaw]_vars

\* ======================================================================
\* The pipeline with no store configured (empty connection string), the
\* eager toggle on or off
\* ======================================================================
InitNoSink ==
    /\ MONGO_URI = FALSE
    /\ PRED_UPLOAD_EAGER \in BOOLEAN
    /\ SAVE_RAW = 0
    /\ FS_HZ = 1
    /\ InitPipe
    /\ Streaming(TRUE)

NextNoSink == ConsumerTick \/ Tick \/ CbRaw \/ CbLabelOne

SpecNoSink == InitNoSink /\ [][NextNoSink]_vars

\* ======================================================================
\* The shared queue: both devices' callbacks and the consumer in any order,
\* the well-formed notifications kept in `call` and the packets the consumer
\* took in `ret`
\* ======================================================================
MaxQueue == 3       \* packets waiting in the queue in SpecQueue
MaxSeen == 3        \* well-formed notifications in one run of SpecQueue
MaxDocsQueue == 3   \* documents created in one run of SpecQueue

QueueVals == {1, 2}
QueueLabels == {"\\x00", "SPD,1.02,0.15", "WALK,1.22,0.42"}

\* The body of _cb_label(node).inner: the queue after a notification `data`
LabelPut(queue, node, data) ==
    IF data = "" THEN queue ELSE Append(queue, <<node, "label", data>>)

\* _cb_raw(node).inner
EnqueueRaw(node) ==
    /\ "raw" \in notif[node]
    /\ Len(q) < MaxQueue
    /\ Len(call) < MaxSeen
    /\ \E len \in RawLens, v \in QueueVals :
          LET data == [len |-> len, v |-> v] IN
          /\ q' = RawPut(q, node, data)
          /\ call' = IF len = 12 THEN Append(call, <<node, "raw", data>>) ELSE call
    /\ UNCHANGED <<MONGO_URI, PRED_UPLOAD_EAGER, SAVE_RAW, FS_HZ, now, buffer, sensor_batch,
                   pred_batch, last_upload, last_stats, last_raw_ts, nextId, remote,
                   backlog, tick, linkVars, ret>>

\* _cb_label(node).inner
EnqueueLabel(node) ==
    /\ "label" \in notif[node]
    /\ Len(q) < MaxQueue
    /\ Len(call) < MaxSeen
    /\ \E data \in QueueLabels \cup {""} :
          /\ q' = LabelPut(q, node, data)
          /\ call' = IF data # "" THEN Append(call, <<node, "label", data>>) ELSE call
    /\ UNCHANGED <<MONGO_URI, PRED_UPLOAD_EAGER, SAVE_RAW, FS_HZ, now, buffer, sensor_batch,
                   pred_batch, last_upload, last_stats, last_raw_ts, nextId, remote,
                   backlog, tick, linkVars, ret>>

CbRawQueue == \E node \in Nodes : EnqueueRaw(node)
CbLabelQueue == \E node \in Nodes : EnqueueLabel(node)

\* One iteration of consumer(), the packet it took appended to `ret`
ConsumerSeen ==
    /\ ConsumerBody(MaxDocsQueue)
    /\ ret' = IF q = <<>> THEN ret ELSE Append(ret, Dequeue(q).item)
    /\ call' = call

NextQueue == ConsumerSeen \/ CbRawQueue \/ CbLabelQueue

SpecQueue == InitFeed /\ [][NextQueue]_vars

\* ======================================================================
\* The window buffer on its own: add_sample called with any samples
\* ======================================================================
MaxCalls == 5       \* calls of add_sample in one run of SpecBuf

SampleDevices == Nodes \cup {"hip"}
SampleVals == {1, 2}

Sample(dev, v) == [device |-> dev, accel |-> <<v, v, v>>, gyro |-> <<v, 0, 0>>]

\* add_sample(sample), the samples passed so far kept in `call`
AddSample ==
    /\ Len(call) < MaxCalls
    /\ \E dev \in SampleDevices, v \in SampleVals :
          LET s == add_sample(PipeState, Sample(dev, v)) IN
          /\ buffer' = s.buffer
          /\ last_raw_ts' = s.last_raw_ts
          /\ sensor_batch' = s.sensor_batch
          /\ nextId' = s.nextId
          /\ call' = Append(call, Sample(dev, v))
    /\ UNCHANGED <<MONGO_URI, PRED_UPLOAD_EAGER, SAVE_RAW, FS_HZ, now, q, pred_batch,
                   last_upload, last_stats, remote, backlog, tick, linkVars, ret>>

InitBuf ==
    /\ MONGO_URI = FALSE
    /\ PRED_UPLOAD_EAGER = FALSE
    /\ SAVE_RAW \in {0, 1}
    /\ FS_HZ = 1
    /\ InitPipe
    /\ Streaming(TRUE)

NextBuf == AddSample

SpecBuf == InitBuf /\ [][NextBuf]_vars

\* ======================================================================
\* The window buffer and maybe_predict: samples added in any order, with
\* maybe_predict called between them; no summary is cached, no store
\* ======================================================================
MaxWinDocs == 2     \* predictions queued in one run of SpecWindow
MaxWinCalls == 4    \* calls of add_sample in one run of SpecWindow

\* add_sample(sample) for a sample of either device, the samples passed so
\* far kept in `call`
AddSampleWin ==
    /\ Len(call) < MaxWinCalls
    /\ \E dev \in Nodes, v \in SampleVals :
          LET s == add_sample(PipeState, Sample(dev, v)) IN
          /\ buffer' = s.buffer
          /\ last_raw_ts' = s.last_raw_ts
          /\ sensor_batch' = s.sensor_batch
          /\ nextId' = s.nextId
          /\ call' = Append(call, Sample(dev, v))
    /\ UNCHANGED <<MONGO_URI, PRED_UPLOAD_EAGER, SAVE_RAW, FS_HZ, now, q, pred_batch,
                   last_upload, last_stats, remote, backlog, tick, linkVars, ret>>

\* maybe_predict(), the window it handed to the classifier kept in `ret`
Predict ==
    /\ nextId <= MaxWinDocs
    /\ \E s \in maybe_predict(PipeState) :
          /\ pred_batch' = s.pred_batch
          /\ nextId' = s.nextId
          /\ remote' = s.w.remote
          /\ backlog' = s.w.backlog
          /\ tick' = s.tick
          /\ ret' = IF s.tick.predicted = "model"
                    THEN <<ReadyWindow(PipeState)>> ELSE <<>>
    /\ UNCHANGED <<MONGO_URI, PRED_UPLOAD_EAGER, SAVE_RAW, FS_HZ, now, q, buffer,
                   sensor_batch, last_upload, last_stats, last_raw_ts, linkVars, call>>

InitWindow ==
    /\ MONGO_URI = FALSE
    /\ PRED_UPLOAD_EAGER = FALSE
    /\ SAVE_RAW = 0
    /\ FS_HZ = 2
    /\ InitPipe
    /\ Streaming(TRUE)

NextWindow == AddSampleWin \/ Predict

SpecWindow == InitWindow /\ [][NextWindow]_vars

\* ======================================================================
\* The window size on its own: any configured rate and duration
\* ======================================================================
MaxHz == 5          \* sample rates 1..MaxHz
MaxTenths == 30     \* window durations 0.0 .. MaxTenths / 10 seconds

\* window_size = max(1, int(WINDOW_SECONDS * FS_HZ)) at start-up
Configure ==
    /\ call = <<>>
    /\ \E fs \in 1..MaxHz, tenths \in 0..MaxTenths :
          /\ call' = <<fs, tenths>>
          /\ ret' = <<WindowSize(fs, tenths)>>
    /\ UNCHANGED <<MONGO_URI, PRED_UPLOAD_EAGER, SAVE_RAW, FS_HZ, now, q, buffer,
                   sensor_batch, pred_batch, last_upload, last_stats, last_raw_ts,
                   nextId, remote, backlog, tick, linkVars>>

NextConfig == Configure

SpecConfig == InitFeed /\ [][NextConfig]_vars

\* ======================================================================
\* The fallback classifier on its own: any feature row
\* ======================================================================
\* accel-magnitude std values, in thousandths, on and around the thresholds
FeatVals == {0, 50, 100, 149, 150, 151, 200, 300, 499, 500, 501, 600}
FillVals == {0, 900}
RowLens  == {20, 40}

\* A feature row with a at index 13, b at index 33 and f everywhere else
Row(len, a, b, f) ==
    [i \in 1..len |-> IF i = 14 THEN a ELSE IF i = 34 THEN b ELSE f]

\* model.predict(X) and model.predict_proba(X) on one row
Classify ==
    /\ call = <<>>
    /\ \E len \in RowLens, a \in FeatVals, b \in FeatVals, f \in FillVals :
          /\ call' = <<Row(len, a, b, f)>>
          /\ ret' = predict_row(Row(len, a, b, f))
    /\ UNCHANGED <<MONGO_URI, PRED_UPLOAD_EAGER, SAVE_RAW, FS_HZ, now, q, buffer, sensor_batch,
                   pred_batch, last_upload, last_stats, last_raw_ts, nextId, remote,
                   backlog, tick, linkVars>>

NextClassify == Classify

SpecClassify == InitFeed /\ [][NextClassify]_vars

\* ======================================================================
\* The feature extractor on its own: any window of up to MaxWin samples
\* ======================================================================
MaxWin == 2         \* samples of one device in a window of SpecFeatures

Vecs == {<<0, 0, 0>>, <<3, 4, 0>>, <<1, 2, 2>>}
WinSamples == {[accel |-> a, gyro |-> g] : a \in Vecs, g \in {<<0, 0, 0>>, <<2, 1, 2>>}}

\* The sample lists a device can have in a window
WinSeqs == UNION {[1..n -> WinSamples] : n \in 0..MaxWin}

\* compute_features(window) for a window with any subset of the devices
Extract ==
    /\ call = <<>>
    /\ \E present \in SUBSET Nodes :
          \E window \in [present -> WinSeqs] :
              /\ call' = <<window>>
              /\ ret' = compute_features(window)
    /\ UNCHANGED <<MONGO_URI, PRED_UPLOAD_EAGER, SAVE_RAW, FS_HZ, now, q, buffer,
                   sensor_batch, pred_batch, last_upload, last_stats, last_raw_ts,
                   nextId, remote, backlog, tick, linkVars>>

NextFeatures == Extract

SpecFeatures == InitFeed /\ [][NextFeatures]_vars

\* ======================================================================
\* Properties of the uploader (specification Spec)
\* ======================================================================
BatchDocs   == Range(sensor_batch) \cup Range(pred_batch)
RemoteDocs  == UNION {remote[c] : c \in Collections}
BacklogDocs == UNION {FileDocs(backlog[f]) : f \in DOMAIN backlog}
Blocks      == {tick.sensor, tick.pred, tick.eager}

\* Every document created so far is in a batch, in the store or in a file
AllHeld ==
    \A i \in 1..(nextId - 1) :
        \E d \in BatchDocs \cup RemoteDocs \cup BacklogDocs : d.id = i

\* A document leaves its batch only into the store or a backlog file, and a
\* batch is emptied only by a block whose insert_batch returned
RemovedOnlyPersisted ==
    /\ \A d \in BatchDocs :
          d \notin (Range(sensor_batch') \cup Range(pred_batch')) =>
              d \in UNION {remote'[c] : c \in Collections}
                      \cup UNION {FileDocs(backlog'[f]) : f \in DOMAIN backlog'}
    /\ \A b \in {tick'.sensor, tick'.pred, tick'.eager} :
          b.cleared => b.out \in {"ok", "backlog"}

\* C1: under any sequence of consumer ticks and store outcomes, every document
\* appended to a batch is from then on in its batch, in the remote store or in
\* a backlog file, and it leaves the batch only after insert_batch returned
\* having written it remotely or to a backlog file.
C1_Delivered == []AllHeld /\ [][RemovedOnlyPersisted]_vars

\* C1 witness: a failed flush moved a document from memory to a backlog file
\* while another document reached the store
C1_Witness ==
    /\ \E d \in BacklogDocs : d \notin BatchDocs
    /\ RemoteDocs # {}
    /\ \E b \in Blocks : b.out = "backlog" /\ b.cleared

\* C2 (as stated): a flush whose remote write failed produced one new backlog
\* file holding the documents of the failed batch and only those, and no
\* backlogged document is still in an in-memory batch to be written again.
C2_OneFilePerFailedFlush ==
    /\ \A b \in Blocks : b.out = "backlog" => (b.fresh /\ b.exact)
    /\ BacklogDocs \cap BatchDocs = {}

\* A backlog file that stays keeps its lines; one that goes has all its
\* documents in the store
DeletedOnlyReplayed ==
    \A f \in DOMAIN backlog :
        IF f \in DOMAIN backlog'
        THEN /\ Len(backlog'[f]) >= Len(backlog[f])
             /\ SubSeq(backlog'[f], 1, Len(backlog[f])) = backlog[f]
        ELSE FileDocs(backlog[f]) \subseteq UNION {remote'[c] : c \in Collections}

\* C3: flush_backlog deletes a backlog file only after the remote write of
\* its entire contents succeeded; a file whose replay fails is left intact
\* with all its documents.
C3_DeleteAfterReplay ==
    /\ [](\A b \in Blocks : b.sound)
    /\ [][DeletedOnlyReplayed]_vars

\* C3 witness: one sweep replayed and deleted a file and left another, whose
\* replay failed, in place
C3_Witness == \E b \in Blocks : b.replayed >= 1 /\ b.left >= 1 /\ BacklogDocs # {}

\* C4: in a flush attempt with both sinks configured and both batches
\* non-empty, both sinks' writes are attempted whatever the other's outcome,
\* and each batch is emptied exactly when its own insert_batch returned.
C4_SinksIsolated ==
    (tick.gate /\ MONGO_URI /\ tick.had.sensor /\ tick.had.pred) =>
        /\ tick.sensor.att /\ tick.pred.att
        /\ tick.sensor.cleared <=> (tick.sensor.out \in {"ok", "backlog"})
        /\ tick.pred.cleared <=> (tick.pred.out \in {"ok", "backlog"})
        /\ tick.sensor.cleared <=> (sensor_batch = <<>>)
        /\ tick.pred.cleared <=> (pred_batch = <<>>)

\* C4 witness: the sensor sink's backlog write raised and the prediction
\* sink's insert still ran and succeeded
C4_Witness ==
    /\ tick.gate /\ tick.had.sensor /\ tick.had.pred
    /\ tick.sensor.out = "raise"
    /\ tick.pred.out = "ok"
    /\ sensor_batch # <<>>

\* C5 (as stated): a document of the sensor batch is only ever written to the
\* sensor destination, one of the prediction batch only to the prediction
\* destination, backlog replays included.
C5_SeparateDestinations ==
    /\ \A d \in remote[SENSOR_COLLECTION] : d.type # "prediction"
    /\ \A d \in remote[PRED_COLLECTION] : d.type = "prediction"

\* ======================================================================
\* Properties of the device links (specifications SpecLink, SpecDegraded)
\* ======================================================================
Has(n, e) == \E i \in 1..Len(devlog[n]) : devlog[n][i] = e
Count(n, op, out) ==
    Cardinality({i \in 1..Len(devlog[n]) : devlog[n][i] = <<op, out>>})
Registered(n) == \E i \in 1..Len(clients) : clients[i] = n

SetupFailures == { <<"scan", "raise">>, <<"sub_label", "raise">>, <<"raw_on", "fail">>,
                   <<"sub_raw", "fail">>, <<"START", "fail">> }

\* C6 (as stated): a failure of a link set-up step of one device (discovery
\* raising, LABEL subscription raising, RAW enable failing, START failing) is
\* confined to that device: producer, consumer and the other device's set-up
\* continue and the process does not terminate.
C6_FailureConfined ==
    \A n \in Nodes :
        (\E e \in SetupFailures : Has(n, e)) =>
            /\ prod \in {"connecting", "idle"}
            /\ cons = "running"
            /\ main = "gather"
            /\ \A m \in Nodes \ {n} : pc[m] # "cancelled"

\* Three attempts made and all of them failed
ThreeFailed(n) == Count(n, "connect", "fail") = 3

\* C7: after three consecutive failed connect attempts for one device the
\* coroutine has returned normally; unless the other device's own set-up
\* raised, producer, consumer and main keep running, and a streaming other
\* device keeps its open link and its subscriptions, with no disconnect
\* operation attempted on it.
C7_OtherUnaffected ==
    \A a \in Nodes :
        ThreeFailed(a) =>
            /\ pc[a] = "gaveup"
            /\ (\A b \in Nodes \ {a} : pc[b] # "raised") =>
                  /\ main = "gather" /\ cons = "running"
                  /\ prod \in {"connecting", "idle"}
                  /\ \A b \in Nodes \ {a} :
                        pc[b] = "done" =>
                            /\ linkOpen[b] /\ Registered(b)
                            /\ dlog[b] = <<>>
                            /\ Has(b, <<"sub_label", "ok">>) => "label" \in notif[b]
                            /\ Has(b, <<"sub_raw", "ok">>) => "raw" \in notif[b]

\* C7 witness: one device gave up, connect_all returned, and a consumer tick
\* that ran after the give-up consumed a RAW packet of the other device,
\* found its window full, queued a model prediction and attempted the upload
C7_Witness ==
    \E a \in Nodes : \E b \in Nodes \ {a} :
        /\ ThreeFailed(a) /\ prod = "idle"
        /\ tick.gaveup = {a}
        /\ tick.kind = "raw"
        /\ Len(buffer[b]) >= window_size /\ buffer[a] = <<>>
        /\ tick.predicted = "model"
        /\ tick.gate /\ tick.pred.att

\* C8: with a resolved address at most 3 link-open attempts are made; none
\* follows a successful one; after the third consecutive failure the device
\* is terminal: never registered, never subscribed, never sent START.
C8_BoundedRetry ==
    \A n \in Nodes :
        LET fails == Count(n, "connect", "fail")
            oks   == Count(n, "connect", "ok")
        IN  /\ attempt[n] <= 3
            /\ attempt[n] > 0 => devlog[n][1] = <<"scan", "found">>
            /\ oks <= 1
            /\ attempt[n] - (fails + oks) \in {0, 1}
            /\ pc[n] \notin {"settle", "cancelled"} => attempt[n] = fails + oks
            /\ oks = 1 => /\ Registered(n)
                          /\ pc[n] \notin {"connect", "settle", "gaveup"}
            /\ pc[n] = "gaveup" <=> fails = 3
            /\ fails = 3 =>
                  /\ ~Registered(n) /\ notif[n] = {} /\ ~linkOpen[n]
                  /\ \A i \in 1..Len(devlog[n]) :
                        devlog[n][i][1] \in {"scan", "connect"}

\* C8 witness: one device gave up after three failures while the other got
\* through on its third attempt
C8_Witness ==
    \E n \in Nodes : \E m \in Nodes \ {n} :
        /\ pc[n] = "gaveup" /\ Count(n, "connect", "fail") = 3
        /\ attempt[m] = 3 /\ Registered(m) /\ Has(m, <<"connect", "ok">>)

SetupOps == {"sub_label", "raw_on", "sub_raw", "START"}
OpsOf(n) ==
    LET sel == SelectSeq(devlog[n], LAMBDA e : e[1] \in SetupOps)
    IN  [i \in 1..Len(sel) |-> sel[i][1]]
IsPrefix(a, b) == Len(a) <= Len(b) /\ SubSeq(b, 1, Len(a)) = a
StartCount(n) == Count(n, "START", "ok") + Count(n, "START", "fail")

\* The order of the set-up operations on one device
OrderKept(n) ==
    /\ OpsOf(n) # <<>> => Registered(n)
    /\ IF ~enable_raw THEN IsPrefix(OpsOf(n), <<"sub_label", "START">>)
       ELSE IF Has(n, <<"raw_on", "fail">>)
       THEN IsPrefix(OpsOf(n), <<"sub_label", "raw_on", "START">>)
       ELSE IsPrefix(OpsOf(n), <<"sub_label", "raw_on", "sub_raw", "START">>)
    /\ StartCount(n) <= 1

\* C9 (as stated): for every device whose link opens the set-up operations
\* occur in the order LABEL, raw:on, RAW, START and START is written exactly
\* once, also when RAW fails.
C9_StartAlways ==
    \A n \in Nodes :
        (Registered(n) /\ pc[n] \in {"done", "raised"}) =>
            (OrderKept(n) /\ StartCount(n) = 1)

\* C9 (amended): the set-up operations occur only in that order and START is
\* written at most once; when the LABEL subscription succeeded and set-up ran
\* to its end START was written exactly once, also when enabling or
\* subscribing RAW failed; when the LABEL subscription raised START is never
\* written.
C9_SetupOrder ==
    \A n \in Nodes :
        /\ OrderKept(n)
        /\ pc[n] = "done" => (Has(n, <<"sub_label", "ok">>) /\ StartCount(n) = 1)
        /\ Has(n, <<"sub_label", "raise">>) => (StartCount(n) = 0 /\ pc[n] = "raised")

\* C9 witness: RAW could not be subscribed and START was still written
C9_Witness ==
    \E n \in Nodes :
        /\ pc[n] = "done"
        /\ Has(n, <<"raw_on", "ok">>) /\ Has(n, <<"sub_raw", "fail">>)
        /\ StartCount(n) = 1

\* C10: disconnect_all attempts STOP, unsubscribe RAW, unsubscribe LABEL and
\* close, in this order, on every device registered when it is called; a
\* failed operation prevents neither the remaining operations on that device
\* nor those on the remaining devices.
C10_BestEffortDisconnect ==
    /\ \A n \in Nodes : IsPrefix(dlog[n], DiscOps)
    /\ \A n \in Nodes : dfail[n] # 0 => Len(dlog[n]) >= dfail[n]
    /\ main \in {"stopping", "exited"} =>
          \A i \in 1..Len(stopper.list) :
              dlog[stopper.list[i]] =
                  IF i < stopper.i THEN DiscOps
                  ELSE IF i = stopper.i THEN SubSeq(DiscOps, 1, stopper.step - 1)
                  ELSE <<>>
    /\ main = "exited" => \A i \in 1..Len(stopper.list) : dlog[stopper.list[i]] = DiscOps

\* C10 witness: STOP failed on the first of two registered devices and all
\* four operations were attempted on both
C10_Witness ==
    /\ main = "exited"
    /\ Len(stopper.list) = 2
    /\ dfail[stopper.list[1]] = 1
    /\ \A i \in 1..2 : dlog[stopper.list[i]] = DiscOps

\* C11 (as stated): when the process has exited, the disconnect sequence was
\* attempted on every device whose wireless link was opened and is still
\* open; no device is left with an open link and no disconnect attempt.
C11_DisconnectEveryOpenLink ==
    main = "exited" =>
        \A n \in Nodes :
            (linkOpen[n] \/ Has(n, <<"connect", "ok">>)) => dlog[n] = DiscOps

\* ======================================================================
\* Properties of the consumer loop (specification SpecFeed)
\* ======================================================================
\* C12 (as stated): every consumer iteration, whatever it dequeued or on a
\* timeout, called maybe_predict and maybe_upload before the next dequeue.
C12_EveryTickDownstream == tick.kind # "none" => tick.down

\* Every RAW packet in the queue has 12 bytes
QueuedRawValid == \A i \in 1..Len(q) : q[i][2] = "raw" => q[i][3].len = 12

\* The consumer's own length check: a RAW packet of another length, were it
\* at the head of the queue, would change nothing
BadRawIgnored ==
    \A n \in Nodes : \A len \in RawLens \ {12} : \A v \in RawVals :
        consumer(PipeState, << <<n, "raw", [len |-> len, v |-> v]>> >>)
            = {[PipeState EXCEPT !.tick.kind = "dropped"]}

\* The step in which a RAW notification of a wrong length is delivered
\* leaves the queue and the whole pipeline as they were
BadRawDropped ==
    (call' # call /\ call'[Len(call')].len # 12) =>
        UNCHANGED <<q, buffer, sensor_batch, pred_batch, last_raw_ts, last_stats,
                    last_upload, nextId, remote, backlog, now, tick, cons>>

\* C13: a RAW payload whose length is not 12 bytes is dropped: no buffer, no
\* batch, no last-raw-seen stamp and no cached stats change, the consumer
\* keeps running, and as the state is untouched every later valid packet is
\* processed as if the malformed one had never arrived.
C13_MalformedRawDropped ==
    /\ [](QueuedRawValid /\ BadRawIgnored /\ cons = "running")
    /\ [][BadRawDropped]_vars

\* C13 witness: a 6-byte notification of a device was followed by a valid one
\* of the same device, which the consumer processed into a one-sample buffer
C13_Witness ==
    \E n \in Nodes :
        /\ call = << [node |-> n, len |-> 6], [node |-> n, len |-> 12] >>
        /\ tick.kind = "raw" /\ q = <<>>
        /\ Len(buffer[n]) = 1
        /\ last_raw_ts[n] = now

\* ======================================================================
\* The upload timer (specification Spec)
\* ======================================================================
\* What a call of maybe_upload does to the timer
TimerRule ==
    /\ (now - last_upload >= BATCH_UPLOAD_SECONDS) =>
          (tick'.gate /\ last_upload' = now' /\ last_upload' >= now)
    /\ (now - last_upload < BATCH_UPLOAD_SECONDS) =>
          (~tick'.gate /\ last_upload' = last_upload)

\* Every step of Spec that is neither the clock nor a notification is a
\* consumer iteration; one that called maybe_upload follows the rule
TimerStep == Tick \/ CbLabelOne \/ (tick'.down => TimerRule)

\* C14: every call of maybe_upload that passes the interval gate sets
\* last_upload to the current time, whether each sink's write succeeded,
\* failed or was skipped; two gated flush attempts are therefore never less
\* than BATCH_UPLOAD_SECONDS apart.
C14_TimerAlwaysReset ==
    /\ [](last_upload <= now)
    /\ [][TimerStep]_vars
    /\ [][last_upload' # last_upload =>
             last_upload' - last_upload >= BATCH_UPLOAD_SECONDS]_vars

\* C14 witness: a second gated attempt in which the sensor sink raised and the
\* prediction sink was skipped still moved the timer to the current time
C14_Witness ==
    /\ tick.gate /\ tick.had.sensor /\ ~tick.had.pred
    /\ tick.sensor.out = "raise" /\ ~tick.pred.att
    /\ last_upload = now /\ last_upload >= StartTime + 2
    /\ backlog # <<>>

C16_ReplayEveryAttempt ==
    (tick.gate /\ MONGO_URI /\ backlog # <<>>) =>
        (tick.sensor.att /\ tick.pred.att)

\* ======================================================================
\* The window buffer (specification SpecBuf)
\* ======================================================================
\* The normalised samples received for device n, in arrival order
Received(n) ==
    LET sel == SelectSeq(call, LAMBDA x : x.device = n)
    IN  [i \in 1..Len(sel) |-> [accel |-> sel[i].accel, gyro |-> sel[i].gyro]]

Min2(a, b) == IF a <= b THEN a ELSE b

\* buffer[n] is the tail of Received(n) of length min(count, 3 * window_size)
MostRecent(n) ==
    LET h == Received(n)
        k == Min2(Len(h), 3 * window_size)
    IN  /\ Len(buffer[n]) = k
        /\ \A i \in 1..k : buffer[n][i] = h[Len(h) - k + i]

\* C17: after any sequence of add_sample calls each device's buffer holds at
\* most 3 * window_size samples and is exactly the most recent
\* min(count, 3 * window_size) samples received for that device, in arrival
\* order; a sample for one device leaves the other device's buffer unchanged.
C17_BufferMostRecent ==
    /\ [](\A n \in Nodes : Len(buffer[n]) <= 3 * window_size /\ MostRecent(n))
    /\ [][\A n \in Nodes :
             (call' # call /\ call'[Len(call')].device # n) => buffer'[n] = buffer[n]]_vars

\* C17 witness: one device received more samples than the cap, the oldest
\* (value 1) was dropped, and the other device holds its single sample
C17_Witness ==
    \E n \in Nodes : \E m \in Nodes \ {n} :
        /\ Len(Received(n)) = 3 * window_size + 1
        /\ Received(n)[1].accel = <<1, 1, 1>>
        /\ \A i \in 1..Len(buffer[n]) : buffer[n][i].accel = <<2, 2, 2>>
        /\ Len(buffer[n]) = 3 * window_size
        /\ Len(buffer[m]) = 1

\* ======================================================================
\* The fallback classifier (specification SpecClassify)
\* ======================================================================
\* Position of a label in the confidence distribution
LabelIndex(l) == CHOOSE i \in 1..3 : label_map[i] = l

\* C18: for every 40-value feature row, with m the greater of feature[13] and
\* feature[33], the fallback classifier returns Idle iff m < 0.15, Walking iff
\* 0.15 <= m < 0.50 and Running iff m >= 0.50, and its confidence
\* distribution has 0.6 on the returned label and 0.2 on the other two.
C18_FallbackThresholds ==
    (call # <<>> /\ Len(call[1]) = 40) =>
        LET a == call[1][14]
            b == call[1][34]
            m == IF a >= b THEN a ELSE b
        IN  /\ ret.label \in {"Idle", "Walking", "Running"}
            /\ ret.label = "Idle" <=> m < 150
            /\ ret.label = "Walking" <=> (150 <= m /\ m < 500)
            /\ ret.label = "Running" <=> m >= 500
            /\ Len(ret.proba) = 3
            /\ \A i \in 1..3 :
                  ret.proba[i] = IF i = LabelIndex(ret.label) THEN 600 ELSE 200

\* C18 witness: a row with feature[13] exactly 0.15 and feature[33] below it
\* was classified Walking with 0.6 on Walking
C18_Witness ==
    /\ call # <<>> /\ Len(call[1]) = 40
    /\ call[1][14] = 150 /\ call[1][34] = 100 /\ call[1][1] = 900
    /\ ret.label = "Walking"
    /\ ret.proba = <<200, 600, 200>>

\* ======================================================================
\* Synthetic predictions (specification SpecFeed)
\* ======================================================================
\* What maybe_predict saw in a consumer iteration: the packet has been
\* handled (primed buffer, stamps and stats), the clock has not moved yet
NoFullWindow == \A n \in Nodes : Len(buffer'[n]) < window_size
RawStale ==
    LET a == last_raw_ts'["wrist"]
        b == last_raw_ts'["ankle"]
    IN  now - (IF a >= b THEN a ELSE b) >= 1
AnyStatsCached ==
    \/ last_stats'["wrist"].mean # None \/ last_stats'["wrist"].std # None
    \/ last_stats'["ankle"].acc_mag # None \/ last_stats'["ankle"].intensity # None
SpreadCached ==
    last_stats'["wrist"].std # None \/ last_stats'["ankle"].intensity # None

\* The greater of the cached wrist std and ankle intensity, a missing one
\* counting as 0
GreaterCached ==
    LET w == IF last_stats'["wrist"].std # None THEN last_stats'["wrist"].std ELSE 0
        a == IF last_stats'["ankle"].intensity # None
             THEN last_stats'["ankle"].intensity ELSE 0
    IN  IF w >= a THEN w ELSE a

\* The document a synthetic prediction appended
SyntheticDoc ==
    /\ Len(pred_batch') = Len(pred_batch) + 1
    /\ LET d == pred_batch'[Len(pred_batch')] IN
       /\ d.type = "prediction"
       /\ d.label = (IF GreaterCached < 15 THEN "Idle"
                     ELSE IF GreaterCached < 50 THEN "Walking" ELSE "Running")
       /\ "probs" \notin DOMAIN d

SyntheticRule(cached) ==
    /\ tick'.predicted = "synthetic" <=> (NoFullWindow /\ RawStale /\ cached)
    /\ tick'.predicted = "synthetic" => SyntheticDoc
    /\ (NoFullWindow /\ ~(RawStale /\ cached)) =>
          (tick'.predicted = "none" /\ pred_batch' = pred_batch)

\* Every step of SpecFeed that is neither the clock nor a notification is a
\* consumer iteration; one that called maybe_predict follows the rule
SyntheticStep(cached) ==
    TickFeed \/ CbRaw \/ CbLabel \/ (tick'.down => SyntheticRule(cached))

\* C19 (as stated): maybe_predict appends a synthetic prediction exactly when
\* no device has a full window, raw data is at least 1 second old and some
\* summary statistic is cached for at least one device.
C19_SyntheticAnyStats == [][SyntheticStep(AnyStatsCached)]_vars

\* C19 (amended): ... exactly when no device has a full window, raw data is
\* at least 1 second old and a wrist std or an ankle intensity is cached; the
\* label is the 0.15 / 0.50 threshold on the greater of the two (a missing
\* one counting as 0), the document has no confidence distribution, and when
\* no device has a full window and these conditions do not hold nothing is
\* appended.
C19_SyntheticExactly == [][SyntheticStep(SpreadCached)]_vars

\* C19 witness: a synthetic Running prediction was queued from a wrist std of
\* exactly 0.50, no ankle summary cached, while a device holds a sample short
\* of a window
C19_Witness ==
    /\ tick.predicted = "synthetic"
    /\ pred_batch # <<>>
    /\ pred_batch[Len(pred_batch)].label = "Running"
    /\ last_stats["wrist"].std = 50 /\ last_stats["ankle"].intensity = None
    /\ \E n \in Nodes : Len(buffer[n]) = window_size - 1 /\ Len(buffer[n]) > 0

\* ======================================================================
\* The feature extractor (specification SpecFeatures)
\* ======================================================================
\* Where a device's 20 values start, and where its std entries are
SlotStart(limb) == IF limb = "wrist" THEN 0 ELSE 20
StdEntries == {2, 6, 10, 14, 18}

SamplesOf(window, limb) == IF limb \in DOMAIN window THEN window[limb] ELSE <<>>

\* C20: for every window with at least one sample compute_features returns
\* exactly 40 values, the wrist's 20 then the ankle's 20; a device absent from
\* the window or present with no samples has 20 zeros in its slot, a device
\* with samples has its own min and max of ax at entries 3 and 4 of its slot,
\* and the std entries of a device with a single sample are 0.
C20_FeatureLayout ==
    (call # <<>> /\ \E n \in Nodes : Len(SamplesOf(call[1], n)) > 0) =>
        /\ Len(ret) = 40
        /\ \A n \in Nodes :
              LET v   == SamplesOf(call[1], n)
                  off == SlotStart(n)
                  xs  == {v[i].accel[1] : i \in 1..Len(v)}
              IN  /\ Len(v) = 0 => \A i \in 1..20 : ret[off + i] = 0
                  /\ Len(v) = 1 => \A i \in StdEntries : ret[off + i] = 0
                  /\ Len(v) > 0 =>
                        /\ ret[off + 3] \in xs /\ \A x \in xs : ret[off + 3] <= x
                        /\ ret[off + 4] \in xs /\ \A x \in xs : ret[off + 4] >= x

\* C20 witness: the wrist is absent and the ankle has the single sample
\* (3, 4, 0): 20 zeros, then the ankle's values with accel magnitude 5 and
\* std 0
C20_Witness ==
    /\ call # <<>>
    /\ DOMAIN call[1] = {"ankle"}
    /\ Len(call[1]["ankle"]) = 1
    /\ call[1]["ankle"][1].accel = <<3, 4, 0>>
    /\ Len(ret) = 40
    /\ \A i \in 1..20 : ret[i] = 0
    /\ ret[33] = 5 /\ ret[34] = 0 /\ ret[21] = 3

\* ======================================================================
\* Window readiness (specification SpecWindow)
\* ======================================================================
\* The devices that have received at least window_size samples
ReadyDevices == {n \in Nodes : Len(Received(n)) >= window_size}

\* w has an entry for exactly the ready devices, each the last window_size
\* samples received for it, oldest first
IsReadyWindow(w) ==
    /\ DOMAIN w = ReadyDevices
    /\ \A n \in ReadyDevices :
          LET h == Received(n) IN
          /\ Len(w[n]) = window_size
          /\ \A i \in 1..window_size : w[n][i] = h[Len(h) - window_size + i]

\* What a call of maybe_predict does, no summary being cached
PredictRule ==
    /\ tick'.predicted = "model" <=> ReadyDevices # {}
    /\ ReadyDevices = {} => (tick'.predicted = "none" /\ pred_batch' = pred_batch)
    /\ ReadyDevices # {} =>
          /\ Len(ret') = 1 /\ IsReadyWindow(ret'[1])
          /\ Len(pred_batch') = Len(pred_batch) + 1
          /\ LET d == pred_batch'[Len(pred_batch')]
                 x == compute_features(ret'[1])
             IN  /\ d.type = "prediction"
                 /\ d.label = predict_row(x).label
                 /\ d.probs = predict_row(x).proba
                 /\ \A n \in Nodes \ ReadyDevices :
                       SubSeq(x, SlotStart(n) + 1, SlotStart(n) + 20) = Zeros20

\* C21: maybe_predict takes the model path iff at least one device holds
\* window_size samples or more; the window handed to the classifier has, for
\* each such device, exactly its window_size most recent samples in arrival
\* order, and no entry for a device holding fewer, whose 20 features are
\* therefore zero even when it holds some samples.
C21_WindowOfReadyDevices == [][call' = call => PredictRule]_vars

\* C21 witness: the wrist received three samples and the ankle one; the
\* window handed over holds the wrist's last two in arrival order and nothing
\* for the ankle
C21_Witness ==
    /\ tick.predicted = "model"
    /\ Len(Received("wrist")) = 3 /\ Len(Received("ankle")) = 1
    /\ Received("wrist")[1].accel = <<1, 1, 1>>
    /\ Len(ret) = 1 /\ DOMAIN ret[1] = {"wrist"}
    /\ ret[1]["wrist"][1].accel = <<2, 2, 2>>
    /\ ret[1]["wrist"][2].accel = <<1, 1, 1>>
    /\ Len(buffer["ankle"]) = 1
    /\ pred_batch # <<>>

\* ======================================================================
\* The shared queue (specification SpecQueue)
\* ======================================================================
\* The RAW packets of device n in a sequence of packets
RawOf(pkts, n) == SelectSeq(pkts, LAMBDA p : p[1] = n /\ p[2] = "raw")

\* buffer[n] holds the samples of the RAW packets of n taken so far, which are
\* the first ones that arrived, in arrival order (the newest 3 * window_size)
BufferInArrivalOrder(n) ==
    LET h == RawOf(call, n)
        c == Len(RawOf(ret, n))
        k == Min2(c, 3 * window_size)
    IN  /\ c <= Len(h)
        /\ Len(buffer[n]) = k
        /\ \A i \in 1..k :
              buffer[n][i].accel = <<h[c - k + i][3].v, h[c - k + i][3].v, h[c - k + i][3].v>>

\* C22: with both devices' callbacks and the consumer interleaved in any
\* order, a callback appends its well-formed packet to the queue in the step
\* it is delivered, without waiting for the consumer; the packets taken so
\* far followed by the packets still queued are the packets enqueued, each
\* once and in enqueue order; and each device's samples are in its buffer in
\* arrival order.
C22_QueueFifo ==
    /\ [](ret \o q = call)
    /\ [](\A n \in Nodes : BufferInArrivalOrder(n))
    /\ [][call' # call => (q' = Append(q, call'[Len(call')]) /\ ret' = ret)]_vars

\* C22 witness: a wrist sample, an ankle summary and a second wrist sample
\* were all queued before the consumer took the first; the consumer has taken
\* the three and the wrist buffer holds the two samples as they arrived
C22_Witness ==
    /\ Len(call) = 3 /\ ret = call /\ q = <<>>
    /\ call[1] = <<"wrist", "raw", [len |-> 12, v |-> 2]>>
    /\ call[2] = <<"ankle", "label", "SPD,1.02,0.15">>
    /\ call[3] = <<"wrist", "raw", [len |-> 12, v |-> 1]>>
    /\ Len(buffer["wrist"]) = 2
    /\ buffer["wrist"][1].accel = <<2, 2, 2>>
    /\ buffer["wrist"][2].accel = <<1, 1, 1>>
    /\ last_stats["ankle"].intensity = 15
    /\ tick.predicted = "model"

\* ======================================================================
\* The label branch of the consumer (specification SpecFeed)
\* ======================================================================
\* The step is a consumer iteration that took a LABEL packet
TookLabel == q # <<>> /\ q' = Tail(q) /\ Head(q)[2] = "label"

\* C23 (as stated): processing a LABEL packet received from device d updates
\* only d's cached stats: the other device's cached stats and both window
\* buffers are unchanged, whatever the text of the packet.
C23_LabelUpdatesOwnCache ==
    [][TookLabel =>
         /\ buffer' = buffer
         /\ \A n \in Nodes \ {Head(q)[1]} : last_stats'[n] = last_stats[n]]_vars

\* ======================================================================
\* The window size (specification SpecConfig)
\* ======================================================================
\* The product rate x duration, in tenths of a sample
Product == call[1] * call[2]

\* round() of a value given in tenths, halves to the even integer
RoundTenths(x) ==
    IF x % 10 > 5 \/ (x % 10 = 5 /\ (x \div 10) % 2 = 1) THEN x \div 10 + 1 ELSE x \div 10

\* C24 (as stated): the window size equals round(sample_rate_hz *
\* window_seconds) with a minimum of 1, for every integer rate and every
\* window duration, fractional ones included.
C24_WindowSizeRounded ==
    call # <<>> =>
        ret[1] = (IF RoundTenths(Product) >= 1 THEN RoundTenths(Product) ELSE 1)

\* C24 (amended): the window size is the product sample_rate_hz *
\* window_seconds with its fraction dropped (not rounded), with a minimum of
\* 1: it is 1 when the product is below 2, and otherwise the integer N with
\* N <= product < N + 1.
C24_WindowSizeTruncated ==
    call # <<>> =>
        /\ ret[1] >= 1
        /\ Product < 20 => ret[1] = 1
        /\ Product >= 20 => (10 * ret[1] <= Product /\ Product < 10 * (ret[1] + 1))

\* C24 witness: 3 Hz and 2.5 seconds, a product of 7.5, give a window of 7
\* samples
C24_Witness == call = <<3, 25>> /\ ret = <<7>>

\* ======================================================================
\* Readiness once reached (specification SpecFeed)
\* ======================================================================
SomeReady == \E n \in Nodes : Len(buffer[n]) >= window_size

\* A device that holds a full window still holds one after the step
StaysReady ==
    \A n \in Nodes : Len(buffer[n]) >= window_size => Len(buffer'[n]) >= window_size

\* The iteration appended one model-derived prediction
ModelPrediction ==
    /\ tick'.predicted = "model"
    /\ Len(pred_batch') = Len(pred_batch) + 1
    /\ "probs" \in DOMAIN pred_batch'[Len(pred_batch')]

\* Every step of SpecFeed that is neither the clock nor a notification is a
\* consumer iteration
ReadyStep == TickFeed \/ CbRaw \/ CbLabel \/ ModelPrediction

\* C25 (as stated): once a device's buffer has reached window_size samples it
\* never again holds fewer, and from that state on every consumer iteration,
\* with or without a new sample, appends one model-derived prediction and
\* none appends a synthetic one.
C25_ReadyStaysReady ==
    [][SomeReady => (StaysReady /\ ReadyStep /\ tick'.predicted # "synthetic")]_vars

\* ======================================================================
\* No store configured (specification SpecNoSink)
\* ======================================================================
\* Nothing was written anywhere and no sink call was made in the last tick
NothingWritten ==
    /\ backlog = <<>>
    /\ \A c \in Collections : remote[c] = {}
    /\ \A b \in Blocks : ~b.att

\* Every step of SpecNoSink that is neither the clock nor a notification is
\* a consumer iteration; one that called maybe_upload follows the timer rule
NoSinkTimerStep == Tick \/ CbRaw \/ CbLabelOne \/ (tick'.down => TimerRule)

\* C26: with no store configured no call of maybe_upload or maybe_predict
\* removes a document from either in-memory batch and no backlog file is
\* written: both batches only grow, while the upload timer is still set to
\* the current time at every call that finds the interval elapsed.
C26_NoSinkBatchesGrow ==
    /\ []NothingWritten
    /\ [][IsPrefix(sensor_batch, sensor_batch') /\ IsPrefix(pred_batch, pred_batch')]_vars
    /\ [][NoSinkTimerStep]_vars

\* C26 witness: with the eager toggle on, a second elapsed interval moved the
\* timer while a summary and a prediction are still in their batches
C26_Witness ==
    /\ PRED_UPLOAD_EAGER /\ ~MONGO_URI
    /\ tick.gate /\ tick.had.sensor /\ tick.had.pred
    /\ last_upload = now /\ last_upload >= StartTime + 2
    /\ sensor_batch # <<>> /\ pred_batch # <<>>
    /\ backlog = <<>>

====
